---- MODULE Spec2Model ----
(***************************************************************************)
(* Model of the shapefile -> H3 conversion pipeline                        *)
(* (src/shapefile_to_h3_converter.py, src/main.py).                        *)
(*                                                                         *)
(* Numbers.  Coordinates are integers in units of 1/60000 degree, so that  *)
(* the default max_segment_length 0.001 is 60 and 10^-4 degree (the CSV    *)
(* rounding step) is 6.  Arithmetic is exact: the coordinate sets below    *)
(* are chosen so that every interpolated point is an integer, and binary   *)
(* floating point rounding is not modelled.                                *)
(*                                                                         *)
(* Objects.  A Coordinate is the pair <<x, y>> = <<longitude, latitude>>.  *)
(* A Feature is an object: _geojson_data holds references (indices into    *)
(* heap) and heap[ref] is the coordinate list of that feature's geometry,  *)
(* so that two collections sharing Feature objects are visible as such.    *)
(* Properties, ids and the crs are carried through untouched and left out. *)
(***************************************************************************)
EXTENDS Integers, Sequences, FiniteSets, TLC

VARIABLES
    pc,                         \* position in main.py / __init__
    args,                       \* keyword arguments given to InputParams(...)
    input_params,               \* the validated InputParams (self._input)
    shapefile_read,             \* the input file has been opened for reading
    _shapefile_data,            \* what geopandas.read_file returned, as to_json() gives it
    _geojson_data,              \* self._geojson_data: references to Feature objects
    heap,                       \* Feature object -> geometry.coordinates
    segmentized_geojson_data,   \* the collection segmentize_geojson_data returned
    _coordinates,               \* self._coordinates
    _coordinates_segmentized,   \* self._coordinates_segmentized
    _h3_hexagons,               \* self._h3_hexagons
    files,                      \* output file -> [status, content]
    error,                      \* the exception that ended the run, or "none"
    log,                        \* the steps completed so far, in order
    seg_line,                   \* segmentize call: the coordinates given
    seg_msl,                    \* segmentize call: max_segment_length
    seg_out,                    \* segmentize call: the result of the first call
    seg_out2                    \* segmentize call: the result of the call on seg_out

vars == <<pc, args, input_params, shapefile_read, _shapefile_data, _geojson_data,
          heap, segmentized_geojson_data, _coordinates, _coordinates_segmentized,
          _h3_hexagons, files, error, log, seg_line, seg_msl, seg_out, seg_out2>>

pipeline_vars == <<args, input_params, shapefile_read, _shapefile_data, _geojson_data,
                   heap, segmentized_geojson_data, _coordinates,
                   _coordinates_segmentized, _h3_hexagons, files, log>>

seg_vars == <<seg_line, seg_msl, seg_out, seg_out2>>

(***************************************************************************)
(* Bounds of the model and constants of the program.                       *)
(***************************************************************************)
MaxFeatures == 2
MaxPoints == 2
MaxLinePoints == 3

DefaultMaxSegmentLength == 60
H3ResolutionMin == 0
H3ResolutionMax == 15
CoordinateMin == 0
CoordinateMax == 10800000
DecimalsStep == 6

\* Coordinates the ingested file may hold: one with a negative longitude.
FileCoordinates == {<<-60, 0>>, <<120, 60>>}
\* Coordinates of the lines given to the segmentize calls.
SegAxis == {0, 60, 120}
SegCoordinates == SegAxis \X SegAxis
\* max_segment_length values given to segmentize_linestring.
MaxSegmentLengths == {-60, 0, 40, 60, 90}
\* h3_resolution values given to InputParams.
Resolutions == {-1, 0, 15, 16}
\* File path arguments: the empty string, or the path main.py gives.
Paths == {"", "path"}

SeqsUpTo(S, n) == UNION {[1..k -> S] : k \in 0..n}

FileNames == {"geojson", "geojson_segmentized", "coordinates",
              "coordinates_segmentized", "h3_hexagons"}

NoContent == [header |-> "", rows |-> <<>>]
Untouched == [status |-> "absent", content |-> NoContent]

(***************************************************************************)
(* InputParams: four paths with min_length=1 (not the empty string),       *)
(* h3_resolution with ge=0, le=15.                                         *)
(***************************************************************************)
ArgSets == [shapefile_filepath : Paths,
            output_filepath_geojson : Paths,
            output_filepath_geojson_segmentized : Paths,
            h3_resolution : Resolutions,
            output_filepath_h3_hexagons : Paths]

\* InputParams without the ge/le constraints of h3_resolution.
InputParamsNoResolutionCheck(a) ==
    /\ a.shapefile_filepath # ""
    /\ a.output_filepath_geojson # ""
    /\ a.output_filepath_geojson_segmentized # ""
    /\ a.output_filepath_h3_hexagons # ""

InputParamsValid(a) ==
    /\ a.shapefile_filepath # ""
    /\ a.output_filepath_geojson # ""
    /\ a.output_filepath_geojson_segmentized # ""
    /\ a.h3_resolution >= H3ResolutionMin
    /\ a.h3_resolution <= H3ResolutionMax
    /\ a.output_filepath_h3_hexagons # ""

(***************************************************************************)
(* The GeoJSON models.  Field(..., min_length=2, max_length=2, min=0,      *)
(* max=180) constrains the length of a Coordinate only: min and max are    *)
(* not constraints of pydantic's Field (ge/le are), so no bound on the     *)
(* values is enforced.  A Geometry needs at least one Coordinate.          *)
(***************************************************************************)
CoordinateValid(c) == Len(c) = 2

GeometryValid(coordinates) ==
    /\ Len(coordinates) >= 1
    /\ \A i \in 1..Len(coordinates) : CoordinateValid(coordinates[i])

GeoJsonModelValid(doc) == \A i \in 1..Len(doc) : GeometryValid(doc[i])

\* The documents read_file(...).to_json() may give: a list of features, each
\* the coordinate list of its geometry (an empty one included).
Documents == SeqsUpTo(SeqsUpTo(FileCoordinates, MaxPoints), MaxFeatures)

(***************************************************************************)
(* shapely / GEOS.  LineString(coords) takes no or at least two points.    *)
(* GeoSeries.segmentize is GEOS' Densifier: it rejects a tolerance <= 0;   *)
(* each segment of length len is cut in ceil(len / tolerance) equal parts; *)
(* points go into a coordinate list that does not take a point equal to    *)
(* the one before it; a line left with one point becomes the empty line.  *)
(***************************************************************************)
LineStringValid(coords) == Len(coords) # 1

SqDist(p, q) == (q[1] - p[1]) * (q[1] - p[1]) + (q[2] - p[2]) * (q[2] - p[2])

RECURSIVE CeilSearch(_, _, _)
CeilSearch(d2, tol, n) ==
    IF n * n * tol * tol >= d2 THEN n ELSE CeilSearch(d2, tol, n + 1)

RECURSIVE FloorSearch(_, _, _)
FloorSearch(d2, tol, n) ==
    IF (n + 1) * (n + 1) * tol * tol > d2 THEN n ELSE FloorSearch(d2, tol, n + 1)

\* floor(len / tolerance) in place of the ceiling.
DensifiedSegCountFloor(p, q, tol) == FloorSearch(SqDist(p, q), tol, 0)

\* ceil(len / tolerance), len the Euclidean length of the segment p-q.
DensifiedSegCount(p, q, tol) == CeilSearch(SqDist(p, q), tol, 0)

\* The point at fraction j/n measured from q, the far end.
PointAlongFromEnd(p, q, j, n) ==
    <<q[1] + (j * (p[1] - q[1])) \div n, q[2] + (j * (p[2] - q[2])) \div n>>

\* seg.pointAlong(j * (len / n) / len): the point at fraction j/n of p-q.
PointAlong(p, q, j, n) ==
    <<p[1] + (j * (q[1] - p[1])) \div n, p[2] + (j * (q[2] - p[2])) \div n>>

\* A coordinate list that takes repeated points (allowRepeated = true).
AddRepeated(list, p) == Append(list, p)

\* CoordinateList.insert(end, p, allowRepeated = false).
AddNoRepeat(list, p) ==
    IF Len(list) > 0 /\ list[Len(list)] = p THEN list ELSE Append(list, p)

RECURSIVE AddInterior(_, _, _, _, _)
AddInterior(list, p, q, j, n) ==
    IF j >= n THEN list
    ELSE AddInterior(AddNoRepeat(list, PointAlong(p, q, j, n)), p, q, j + 1, n)

RECURSIVE DensifySegments(_, _, _, _)
DensifySegments(list, pts, i, tol) ==
    IF i >= Len(pts) THEN list
    ELSE LET with0 == AddNoRepeat(list, pts[i])
             n == DensifiedSegCount(pts[i], pts[i + 1], tol)
             filled == IF n > 1
                       THEN AddInterior(with0, pts[i], pts[i + 1], 1, n)
                       ELSE AddNoRepeat(with0, pts[i + 1])
         IN  DensifySegments(filled, pts, i + 1, tol)

DensifyPoints(pts, tol) ==
    AddNoRepeat(DensifySegments(<<>>, pts, 1, tol), pts[Len(pts)])

\* GeoSeries([linestring]).segmentize(max_segment_length), max_segment_length > 0.
Segmentize(coords, tol) ==
    IF Len(coords) = 0 THEN <<>>
    ELSE LET newPts == DensifyPoints(coords, tol)
         IN  IF Len(newPts) = 1 THEN <<>> ELSE newPts

\* segmentize_linestring(linestring, max_segment_length): the Coordinate list,
\* or the library's exception.
segmentize_linestring(linestring, max_segment_length) ==
    IF max_segment_length <= 0
    THEN [ok |-> FALSE, coordinates |-> <<>>]
    ELSE [ok |-> TRUE, coordinates |-> Segmentize(linestring, max_segment_length)]

(***************************************************************************)
(* _extract_coordinates: every feature's coordinates, in feature order     *)
(* then point order.                                                       *)
(***************************************************************************)
RECURSIVE ExtractFrom(_, _, _)
ExtractFrom(data, h, i) ==
    IF i > Len(data) THEN <<>> ELSE h[data[i]] \o ExtractFrom(data, h, i + 1)

_extract_coordinates(data, h) == ExtractFrom(data, h, 1)

\* model_dump_json(): the document, its features' coordinate lists in order.
model_dump_json(data, h) ==
    [header |-> "FeatureCollection", rows |-> [i \in 1..Len(data) |-> h[data[i]]]]

(***************************************************************************)
(* h3.  latlng_to_cell gives the cell of the grid of the resolution that   *)
(* holds the point; grid_ring(cell, 1) gives the cells at grid distance 1: *)
(* six of them, five around a pentagon.  The grid here is a hexagonal grid *)
(* in axial coordinates whose cells get smaller as the resolution grows;   *)
(* its cell at the origin is a pentagon.                                   *)
(***************************************************************************)
CellWidth(resolution) == 60 * (16 - resolution)

latlng_to_cell(lat, lng, resolution) ==
    <<resolution, lng \div CellWidth(resolution), lat \div CellWidth(resolution)>>

grid_ring(cell) ==
    LET r == cell[1]
        q == cell[2]
        s == cell[3]
        six == << <<r, q + 1, s>>, <<r, q + 1, s - 1>>, <<r, q, s - 1>>,
                  <<r, q - 1, s>>, <<r, q - 1, s + 1>>, <<r, q, s + 1>> >>
    IN  IF q = 0 /\ s = 0 THEN SubSeq(six, 1, 5) ELSE six

RECURSIVE HexagonsFrom(_, _, _)
HexagonsFrom(coordinates, resolution, i) ==
    IF i > Len(coordinates) THEN <<>>
    ELSE LET cell == latlng_to_cell(coordinates[i][2], coordinates[i][1], resolution)
         IN  <<cell>> \o grid_ring(cell)
                      \o HexagonsFrom(coordinates, resolution, i + 1)

Range(seq) == {seq[i] : i \in 1..Len(seq)}

RECURSIVE ListOf(_)
ListOf(S) ==
    IF S = {} THEN <<>>
    ELSE LET x == CHOOSE y \in S : TRUE IN <<x>> \o ListOf(S \ {x})

Reverse(seq) == [i \in 1..Len(seq) |-> seq[Len(seq) + 1 - i]]

\* list(hexagons) in place of list(set(hexagons)).
NotDeduplicated(hexagons) == {hexagons}

\* list(set(hexagons)): the distinct elements, in an order the set decides
\* (here: one enumeration or its reverse).
Deduplicated(hexagons) ==
    LET l == ListOf(Range(hexagons))
    IN  {l, Reverse(l)}

\* _coordinates_to_h3_hexagons: the lists it may return.
_coordinates_to_h3_hexagons(coordinates, resolution) ==
    Deduplicated(HexagonsFrom(coordinates, resolution, 1))

(***************************************************************************)
(* The CSV writers: a header and one row per element, the index a counter. *)
(* round(v, 4) is the nearest multiple of 10^-4 degree, a tie going to the *)
(* even one.                                                               *)
(***************************************************************************)
Round(v) ==
    LET q == v \div DecimalsStep
        r == v % DecimalsStep
    IN  IF 2 * r < DecimalsStep THEN q * DecimalsStep
        ELSE IF 2 * r > DecimalsStep THEN (q + 1) * DecimalsStep
        ELSE IF q % 2 = 0 THEN q * DecimalsStep ELSE (q + 1) * DecimalsStep

CoordinateRows(coordinates) ==
    [header |-> "index,latitude,longitude",
     rows |-> [i \in 1..Len(coordinates) |->
                 <<i - 1, Round(coordinates[i][2]), Round(coordinates[i][1])>>]]

HexagonRows(hexagons) ==
    [header |-> "index,h3_hexagon",
     rows |-> [i \in 1..Len(hexagons) |-> <<i - 1, hexagons[i]>>]]

(***************************************************************************)
(* segmentize_geojson_data.  model_copy() is a shallow copy: the copy is a *)
(* new GeoJsonModel whose features are the Feature objects of the          *)
(* original.  The loop replaces each feature's coordinates in turn; a      *)
(* one-point geometry makes LineString(coords) raise, with the features    *)
(* before it already replaced.                                             *)
(***************************************************************************)
model_copy(data) == data

RECURSIVE SegmentizeFeatures(_, _, _)
SegmentizeFeatures(h, data, i) ==
    IF i > Len(data) THEN [ok |-> TRUE, heap |-> h]
    ELSE LET coords == h[data[i]]
             r == segmentize_linestring(coords, DefaultMaxSegmentLength)
         IN  IF ~LineStringValid(coords) \/ ~r.ok
             THEN [ok |-> FALSE, heap |-> h]
             ELSE SegmentizeFeatures([h EXCEPT ![data[i]] = r.coordinates],
                                     data, i + 1)

segmentize_geojson_data(data, h) ==
    LET data_copy == model_copy(data)
        r == SegmentizeFeatures(h, data_copy, 1)
    IN  [ok |-> r.ok, data |-> data_copy, heap |-> r.heap]

(***************************************************************************)
(* Writing a file: open(path, "w") and the writes.  The open may fail,     *)
(* leaving the file as it was; once it succeeded the file is truncated,    *)
(* and a failing write leaves a proper prefix of the content.  No          *)
(* exception is caught anywhere: a raised one ends the run.                *)
(***************************************************************************)
Truncations(content) ==
    {NoContent} \cup
    {[header |-> content.header, rows |-> SubSeq(content.rows, 1, k)] :
        k \in 0..(Len(content.rows) - 1)}

\* An exception handler that goes on with the next step.
Swallowed(next) == next

\* Where a raised exception leaves the run.
Raised(next) == "failed"

\* An order in which the collection is segmentized before it is written.
InitStepAfterSegmentizeFirst(step) ==
    CASE step = "read_file" -> "model_validate"
      [] step = "model_validate" -> "extract_coordinates"
      [] step = "extract_coordinates" -> "segmentize_geojson_data"
      [] step = "segmentize_geojson_data" -> "write_geojson"
      [] step = "write_geojson" -> "extract_coordinates_segmentized"
      [] step = "extract_coordinates_segmentized" -> "write_geojson_segmentized"
      [] step = "write_geojson_segmentized" -> "coordinates_to_h3_hexagons"
      [] step = "coordinates_to_h3_hexagons" -> "constructed"

\* The order of the statements of __init__, from the first to the state
\* "constructed".
InitStepAfter(step) ==
    CASE step = "read_file" -> "model_validate"
      [] step = "model_validate" -> "extract_coordinates"
      [] step = "extract_coordinates" -> "write_geojson"
      [] step = "write_geojson" -> "segmentize_geojson_data"
      [] step = "segmentize_geojson_data" -> "extract_coordinates_segmentized"
      [] step = "extract_coordinates_segmentized" -> "write_geojson_segmentized"
      [] step = "write_geojson_segmentized" -> "coordinates_to_h3_hexagons"
      [] step = "coordinates_to_h3_hexagons" -> "constructed"

\* The order of the statements of main.py.
MainStepAfter(step) ==
    CASE step = "InputParams" -> "read_file"
      [] step = "constructed" -> "write_coordinates_segmentized"
      [] step = "write_coordinates_segmentized" -> "convert"
      [] step = "convert" -> "done"

WriteFile(step, f, content, next) ==
    /\ pc = step
    /\ \/ /\ files' = [files EXCEPT ![f] = [status |-> "complete", content |-> content]]
          /\ pc' = next
          /\ log' = Append(log, f)
          /\ UNCHANGED error
       \/ /\ pc' = Raised(next)
          /\ error' = "OSError"
          /\ UNCHANGED <<files, log>>
       \/ /\ \E t \in Truncations(content) :
                files' = [files EXCEPT ![f] = [status |-> "partial", content |-> t]]
          /\ pc' = Raised(next)
          /\ error' = "OSError"
          /\ UNCHANGED log

(***************************************************************************)
(* main.py and ShapefileToH3Converter.__init__, statement by statement.    *)
(***************************************************************************)
Init ==
    /\ pc = "InputParams"
    /\ args \in ArgSets
    /\ input_params = <<>>
    /\ shapefile_read = FALSE
    /\ _shapefile_data = <<>>
    /\ _geojson_data = <<>>
    /\ heap = <<>>
    /\ segmentized_geojson_data = <<>>
    /\ _coordinates = <<>>
    /\ _coordinates_segmentized = <<>>
    /\ _h3_hexagons = <<>>
    /\ files = [f \in FileNames |-> Untouched]
    /\ error = "none"
    /\ log = <<>>
    /\ seg_line = <<>>
    /\ seg_msl = DefaultMaxSegmentLength
    /\ seg_out = <<>>
    /\ seg_out2 = <<>>

\* main.py: input_params = InputParams(...)
ConstructInputParams ==
    /\ pc = "InputParams"
    /\ IF InputParamsValid(args)
       THEN /\ input_params' = args
            /\ pc' = MainStepAfter("InputParams")
            /\ log' = Append(log, "InputParams")
            /\ UNCHANGED error
       ELSE /\ pc' = Raised(MainStepAfter("InputParams"))
            /\ error' = "ValidationError"
            /\ UNCHANGED <<input_params, log>>
    /\ UNCHANGED <<args, shapefile_read, _shapefile_data, _geojson_data, heap,
                   segmentized_geojson_data, _coordinates, _coordinates_segmentized,
                   _h3_hexagons, files>>
    /\ UNCHANGED seg_vars

\* self._shapefile_data = geopandas.read_file(input_params.shapefile_filepath)
ReadFile ==
    /\ pc = "read_file"
    /\ shapefile_read' = TRUE
    /\ \/ /\ \E doc \in Documents : _shapefile_data' = doc
          /\ pc' = InitStepAfter("read_file")
          /\ log' = Append(log, "read_file")
          /\ UNCHANGED error
       \/ /\ pc' = Raised(InitStepAfter("read_file"))
          /\ error' = "ReadError"
          /\ UNCHANGED <<_shapefile_data, log>>
    /\ UNCHANGED <<args, input_params, _geojson_data, heap, segmentized_geojson_data,
                   _coordinates, _coordinates_segmentized, _h3_hexagons, files>>
    /\ UNCHANGED seg_vars

\* self._geojson_data = GeoJsonModel.model_validate_json(self._shapefile_data.to_json())
ModelValidate ==
    /\ pc = "model_validate"
    /\ IF GeoJsonModelValid(_shapefile_data)
       THEN /\ _geojson_data' = [i \in 1..Len(_shapefile_data) |-> i]
            /\ heap' = _shapefile_data
            /\ pc' = InitStepAfter("model_validate")
            /\ log' = Append(log, "model_validate")
            /\ UNCHANGED error
       ELSE /\ pc' = Raised(InitStepAfter("model_validate"))
            /\ error' = "ValidationError"
            /\ UNCHANGED <<_geojson_data, heap, log>>
    /\ UNCHANGED <<args, input_params, shapefile_read, _shapefile_data,
                   segmentized_geojson_data, _coordinates, _coordinates_segmentized,
                   _h3_hexagons, files>>
    /\ UNCHANGED seg_vars

\* self._coordinates = self._extract_coordinates(data=self._geojson_data)
ExtractCoordinates ==
    /\ pc = "extract_coordinates"
    /\ _coordinates' = _extract_coordinates(_geojson_data, heap)
    /\ pc' = InitStepAfter("extract_coordinates")
    /\ log' = Append(log, "extract_coordinates")
    /\ UNCHANGED <<args, input_params, shapefile_read, _shapefile_data, _geojson_data,
                   heap, segmentized_geojson_data, _coordinates_segmentized,
                   _h3_hexagons, files, error>>
    /\ UNCHANGED seg_vars

\* with open(output_filepath_geojson, "w") as f: f.write(model_dump_json())
WriteGeojson ==
    /\ WriteFile("write_geojson", "geojson", model_dump_json(_geojson_data, heap),
                 InitStepAfter("write_geojson"))
    /\ UNCHANGED <<args, input_params, shapefile_read, _shapefile_data, _geojson_data,
                   heap, segmentized_geojson_data, _coordinates,
                   _coordinates_segmentized, _h3_hexagons>>
    /\ UNCHANGED seg_vars

\* segmentized_geojson_data = self.segmentize_geojson_data(self._geojson_data)
SegmentizeGeojsonData ==
    /\ pc = "segmentize_geojson_data"
    /\ LET r == segmentize_geojson_data(_geojson_data, heap)
       IN  /\ heap' = r.heap
           /\ IF r.ok
              THEN /\ segmentized_geojson_data' = r.data
                   /\ pc' = InitStepAfter("segmentize_geojson_data")
                   /\ log' = Append(log, "segmentize_geojson_data")
                   /\ UNCHANGED error
              ELSE /\ pc' = Raised(InitStepAfter("segmentize_geojson_data"))
                   /\ error' = "GEOSException"
                   /\ UNCHANGED <<segmentized_geojson_data, log>>
    /\ UNCHANGED <<args, input_params, shapefile_read, _shapefile_data, _geojson_data,
                   _coordinates, _coordinates_segmentized, _h3_hexagons, files>>
    /\ UNCHANGED seg_vars

\* self._coordinates_segmentized = self._extract_coordinates(segmentized_geojson_data)
ExtractCoordinatesSegmentized ==
    /\ pc = "extract_coordinates_segmentized"
    /\ _coordinates_segmentized' = _extract_coordinates(segmentized_geojson_data, heap)
    /\ pc' = InitStepAfter("extract_coordinates_segmentized")
    /\ log' = Append(log, "extract_coordinates_segmentized")
    /\ UNCHANGED <<args, input_params, shapefile_read, _shapefile_data, _geojson_data,
                   heap, segmentized_geojson_data, _coordinates, _h3_hexagons, files,
                   error>>
    /\ UNCHANGED seg_vars

\* with open(output_filepath_geojson_segmentized, "w") as f: f.write(...)
WriteGeojsonSegmentized ==
    /\ WriteFile("write_geojson_segmentized", "geojson_segmentized",
                 model_dump_json(segmentized_geojson_data, heap),
                 InitStepAfter("write_geojson_segmentized"))
    /\ UNCHANGED <<args, input_params, shapefile_read, _shapefile_data, _geojson_data,
                   heap, segmentized_geojson_data, _coordinates,
                   _coordinates_segmentized, _h3_hexagons>>
    /\ UNCHANGED seg_vars

\* self._h3_hexagons = self._coordinates_to_h3_hexagons(...)
CoordinatesToH3Hexagons ==
    /\ pc = "coordinates_to_h3_hexagons"
    /\ \E hexagons \in _coordinates_to_h3_hexagons(_coordinates_segmentized,
                                                    input_params.h3_resolution) :
           _h3_hexagons' = hexagons
    /\ pc' = InitStepAfter("coordinates_to_h3_hexagons")
    /\ log' = Append(log, "coordinates_to_h3_hexagons")
    /\ UNCHANGED <<args, input_params, shapefile_read, _shapefile_data, _geojson_data,
                   heap, segmentized_geojson_data, _coordinates,
                   _coordinates_segmentized, files, error>>
    /\ UNCHANGED seg_vars

\* converter.write_coordinates_to_file(converter.coordinates, ...)
WriteCoordinates ==
    /\ WriteFile("constructed", "coordinates", CoordinateRows(_coordinates),
                 MainStepAfter("constructed"))
    /\ UNCHANGED <<args, input_params, shapefile_read, _shapefile_data, _geojson_data,
                   heap, segmentized_geojson_data, _coordinates,
                   _coordinates_segmentized, _h3_hexagons>>
    /\ UNCHANGED seg_vars

\* converter.write_coordinates_to_file(converter.coordinates_segmentized, ...)
WriteCoordinatesSegmentized ==
    /\ WriteFile("write_coordinates_segmentized", "coordinates_segmentized",
                 CoordinateRows(_coordinates_segmentized),
                 MainStepAfter("write_coordinates_segmentized"))
    /\ UNCHANGED <<args, input_params, shapefile_read, _shapefile_data, _geojson_data,
                   heap, segmentized_geojson_data, _coordinates,
                   _coordinates_segmentized, _h3_hexagons>>
    /\ UNCHANGED seg_vars

\* converter.convert(): write_h3_hexagons_to_file(output_filepath_h3_hexagons)
Convert ==
    /\ WriteFile("convert", "h3_hexagons", HexagonRows(_h3_hexagons),
                 MainStepAfter("convert"))
    /\ UNCHANGED <<args, input_params, shapefile_read, _shapefile_data, _geojson_data,
                   heap, segmentized_geojson_data, _coordinates,
                   _coordinates_segmentized, _h3_hexagons>>
    /\ UNCHANGED seg_vars

Constructor ==
    \/ ConstructInputParams
    \/ ReadFile
    \/ ModelValidate
    \/ ExtractCoordinates
    \/ WriteGeojson
    \/ SegmentizeGeojsonData
    \/ ExtractCoordinatesSegmentized
    \/ WriteGeojsonSegmentized
    \/ CoordinatesToH3Hexagons

Next ==
    \/ Constructor
    \/ WriteCoordinates
    \/ WriteCoordinatesSegmentized
    \/ Convert

Spec == Init /\ [][Next]_vars

(***************************************************************************)
(* A client of the class: it builds the converter as main.py does and then *)
(* calls the public method segmentize_linestring with a line and a         *)
(* max_segment_length of its own.                                          *)
(***************************************************************************)
ClientLines == [1..2 -> FileCoordinates]

ClientSegmentizeLinestring ==
    /\ pc = "constructed"
    /\ \E line \in ClientLines, msl \in MaxSegmentLengths :
          LET r == segmentize_linestring(line, msl)
          IN  /\ seg_line' = line
              /\ seg_msl' = msl
              /\ IF r.ok
                 THEN /\ seg_out' = r.coordinates
                      /\ pc' = "client_done"
                      /\ UNCHANGED error
                 ELSE /\ pc' = Raised("client_done")
                      /\ error' = "GEOSException"
                      /\ UNCHANGED seg_out
    /\ UNCHANGED seg_out2
    /\ UNCHANGED pipeline_vars

NextClient ==
    \/ Constructor
    \/ ClientSegmentizeLinestring

SpecClient == Init /\ [][NextClient]_vars

(***************************************************************************)
(* The segmentize methods as functions of their arguments: a call of       *)
(* segmentize_linestring(LineString(seg_line), seg_msl) followed by a call *)
(* on its result, or a call of segmentize_geojson_data on a collection of  *)
(* one feature with the coordinates seg_line followed by a call on the     *)
(* collection it returned.                                                 *)
(***************************************************************************)
SegLines == SeqsUpTo(SegCoordinates, MaxLinePoints)

InitSeg ==
    /\ \/ /\ pc = "seg_linestring"
          /\ seg_line \in {l \in SegLines : LineStringValid(l)}
          /\ seg_msl \in MaxSegmentLengths
          /\ heap = <<>>
          /\ _geojson_data = <<>>
       \/ /\ pc = "seg_geojson"
          /\ seg_line \in {l \in SegLines : GeometryValid(l)}
          /\ seg_msl = DefaultMaxSegmentLength
          /\ heap = <<seg_line>>
          /\ _geojson_data = <<1>>
    /\ args \in {a \in ArgSets : InputParamsValid(a) /\ a.h3_resolution = H3ResolutionMax}
    /\ input_params = args
    /\ shapefile_read = FALSE
    /\ _shapefile_data = <<>>
    /\ segmentized_geojson_data = <<>>
    /\ _coordinates = <<>>
    /\ _coordinates_segmentized = <<>>
    /\ _h3_hexagons = <<>>
    /\ files = [f \in FileNames |-> Untouched]
    /\ error = "none"
    /\ log = <<>>
    /\ seg_out = <<>>
    /\ seg_out2 = <<>>

SegmentizeLinestringCall ==
    /\ pc = "seg_linestring"
    /\ LET r == segmentize_linestring(seg_line, seg_msl)
       IN  IF r.ok
           THEN /\ seg_out' = r.coordinates
                /\ pc' = "seg_linestring_again"
                /\ UNCHANGED error
           ELSE /\ pc' = Raised("seg_linestring_again")
                /\ error' = "GEOSException"
                /\ UNCHANGED seg_out
    /\ UNCHANGED <<seg_line, seg_msl, seg_out2>>
    /\ UNCHANGED pipeline_vars

SegmentizeLinestringAgain ==
    /\ pc = "seg_linestring_again"
    /\ LET r == segmentize_linestring(seg_out, seg_msl)
       IN  IF r.ok /\ LineStringValid(seg_out)
           THEN /\ seg_out2' = r.coordinates
                /\ pc' = "seg_done"
                /\ UNCHANGED error
           ELSE /\ pc' = Raised("seg_done")
                /\ error' = "GEOSException"
                /\ UNCHANGED seg_out2
    /\ UNCHANGED <<seg_line, seg_msl, seg_out>>
    /\ UNCHANGED pipeline_vars

SegmentizeGeojsonDataCall ==
    /\ pc = "seg_geojson"
    /\ LET r == segmentize_geojson_data(_geojson_data, heap)
       IN  /\ heap' = r.heap
           /\ IF r.ok
              THEN /\ segmentized_geojson_data' = r.data
                   /\ seg_out' = r.heap[r.data[1]]
                   /\ pc' = "seg_geojson_again"
                   /\ UNCHANGED error
              ELSE /\ pc' = Raised("seg_geojson_again")
                   /\ error' = "GEOSException"
                   /\ UNCHANGED <<segmentized_geojson_data, seg_out>>
    /\ UNCHANGED <<seg_line, seg_msl, seg_out2>>
    /\ UNCHANGED <<args, input_params, shapefile_read, _shapefile_data, _geojson_data,
                   _coordinates, _coordinates_segmentized, _h3_hexagons, files, log>>

SegmentizeGeojsonDataAgain ==
    /\ pc = "seg_geojson_again"
    /\ LET r == segmentize_geojson_data(segmentized_geojson_data, heap)
       IN  /\ heap' = r.heap
           /\ IF r.ok
              THEN /\ seg_out2' = r.heap[r.data[1]]
                   /\ pc' = "seg_done"
                   /\ UNCHANGED error
              ELSE /\ pc' = Raised("seg_done")
                   /\ error' = "GEOSException"
                   /\ UNCHANGED seg_out2
    /\ UNCHANGED <<seg_line, seg_msl, seg_out>>
    /\ UNCHANGED <<args, input_params, shapefile_read, _shapefile_data, _geojson_data,
                   segmentized_geojson_data, _coordinates, _coordinates_segmentized,
                   _h3_hexagons, files, log>>

NextSeg ==
    \/ SegmentizeLinestringCall
    \/ SegmentizeLinestringAgain
    \/ SegmentizeGeojsonDataCall
    \/ SegmentizeGeojsonDataAgain

SpecSeg == InitSeg /\ [][NextSeg]_vars

(***************************************************************************)
(* Properties.                                                             *)
(***************************************************************************)
IsPrefix(s, t) == Len(s) <= Len(t) /\ \A i \in 1..Len(s) : s[i] = t[i]

RECURSIVE IsSubsequence(_, _)
IsSubsequence(a, b) ==
    IF Len(a) = 0 THEN TRUE
    ELSE IF Len(b) = 0 THEN FALSE
    ELSE IF a[1] = b[1] THEN IsSubsequence(Tail(a), Tail(b))
    ELSE IsSubsequence(a, Tail(b))

\* The steps of a run and the files it writes, in the order the pipeline
\* is to take them.
PipelineOrder ==
    <<"InputParams", "read_file", "model_validate", "extract_coordinates", "geojson",
      "segmentize_geojson_data", "extract_coordinates_segmentized",
      "geojson_segmentized", "coordinates_to_h3_hexagons", "coordinates",
      "coordinates_segmentized", "h3_hexagons">>

WriteOrder ==
    <<"geojson", "geojson_segmentized", "coordinates", "coordinates_segmentized",
      "h3_hexagons">>

Did(step) == step \in Range(log)

NothingWritten == \A f \in FileNames : files[f] = Untouched

\* pts with each run of equal consecutive points taken once.
RECURSIVE Collapse(_)
Collapse(pts) ==
    IF Len(pts) <= 1 THEN pts
    ELSE IF pts[1] = pts[2] THEN Collapse(Tail(pts))
    ELSE <<pts[1]>> \o Collapse(Tail(pts))

\* C1: after segmentize_geojson_data(data) returns, every feature of the
\* input collection still has the coordinate sequence it had before the call
\* (the value validated from the file).  Stated for the features whose
\* consecutive points differ, which is all it takes.
C1_InputCollectionUnchanged ==
    Did("segmentize_geojson_data") =>
        \A i \in 1..Len(_geojson_data) :
            Collapse(_shapefile_data[i]) = _shapefile_data[i] =>
                heap[_geojson_data[i]] = _shapefile_data[i]


\* C2: the steps of a run are taken in the fixed order, each after the one
\* before it has completed: the steps completed so far are always a prefix of
\* the pipeline order; no feature is segmentized before the raw collection
\* file is complete; the cell file is written only when every other file is
\* complete.
C2_FixedStepOrder ==
    /\ IsPrefix(log, PipelineOrder)
    /\ (heap # <<>> /\ heap # _shapefile_data) => files["geojson"].status = "complete"
    /\ files["h3_hexagons"].status # "absent" =>
          \A f \in FileNames \ {"h3_hexagons"} : files[f].status = "complete"

\* C2 witness: a run that took every step, with segmentation having changed a
\* feature.
C2_Witness ==
    /\ pc = "done"
    /\ log = PipelineOrder
    /\ heap # _shapefile_data
    /\ files["h3_hexagons"].status = "complete"

\* The configurations the claim calls invalid, the segment length aside.
InvalidConfiguration(a) ==
    \/ a.h3_resolution < 0
    \/ a.h3_resolution > 15
    \/ \E path \in {a.shapefile_filepath, a.output_filepath_geojson,
                     a.output_filepath_geojson_segmentized,
                     a.output_filepath_h3_hexagons} : path = ""

\* C3 as stated: whenever the run fails on a configuration that is invalid
\* (resolution outside 0..15, an empty path, or a non-positive segment
\* length), no file has been read or written.
C3_InvalidConfigurationRejectedBeforeIO ==
    (pc = "failed" /\ (InvalidConfiguration(args) \/ seg_msl <= 0)) =>
        (~shapefile_read /\ NothingWritten)

\* C3 amended: a resolution outside 0..15 or an empty path makes
\* InputParams(...) fail with a validation error before any file is read or
\* written; a non-positive max_segment_length is rejected as well, but by
\* segmentize_linestring when it is called, which is after the constructor
\* has read the input file.
C3_InvalidInputParamsRejectedBeforeIO ==
    /\ (InvalidConfiguration(args) /\ pc # "InputParams") =>
          /\ pc = "failed"
          /\ error = "ValidationError"
          /\ ~shapefile_read
          /\ NothingWritten
    /\ seg_msl <= 0 => (pc = "failed" /\ error = "GEOSException" /\ shapefile_read)

\* C3 witness: a run rejected for its resolution, nothing read or written.
C3_Witness ==
    /\ pc = "failed"
    /\ error = "ValidationError"
    /\ args.h3_resolution > H3ResolutionMax
    /\ args.shapefile_filepath # ""
    /\ ~shapefile_read
    /\ NothingWritten

OutOfBounds(c) ==
    \E k \in 1..2 : c[k] < CoordinateMin \/ c[k] > CoordinateMax

\* C4: if a coordinate of the ingested collection lies outside [0, 180] on an
\* axis, validation fails and no output file is written.
C4_OutOfBoundsCoordinateRejected ==
    (\E i \in 1..Len(_shapefile_data) :
        \E j \in 1..Len(_shapefile_data[i]) : OutOfBounds(_shapefile_data[i][j]))
    => (NothingWritten /\ ~Did("model_validate"))

SegCalled == pc \in {"seg_linestring_again", "seg_geojson_again", "seg_done"}

\* C5: every two consecutive points of the output of a segmentize call are at
\* most max_segment_length apart (Euclidean distance).
C5_SegmentizationBound ==
    SegCalled =>
        \A i \in 1..(Len(seg_out) - 1) :
            SqDist(seg_out[i], seg_out[i + 1]) <= seg_msl * seg_msl

\* C5 witness: a call on a line with a segment longer than max_segment_length,
\* which got points inserted.
C5_Witness ==
    /\ SegCalled
    /\ \E i \in 1..(Len(seg_line) - 1) :
          SqDist(seg_line[i], seg_line[i + 1]) > seg_msl * seg_msl
    /\ Len(seg_out) > Len(seg_line)

CellsOf(c, resolution) ==
    LET cell == latlng_to_cell(c[2], c[1], resolution)
    IN  {cell} \cup Range(grid_ring(cell))

\* C6: the cell mapper's result is the duplicate-free union, over the input
\* coordinates, of the coordinate's cell and that cell's ring: every home cell
\* is in it, nothing else is, no identifier occurs twice, and it holds at most
\* 7 identifiers per input coordinate.
C6_CellSetIsDedupedUnion ==
    Did("coordinates_to_h3_hexagons") =>
        /\ Range(_h3_hexagons) =
              UNION {CellsOf(_coordinates_segmentized[i], input_params.h3_resolution) :
                        i \in 1..Len(_coordinates_segmentized)}
        /\ \A i \in 1..Len(_coordinates_segmentized) :
              latlng_to_cell(_coordinates_segmentized[i][2],
                             _coordinates_segmentized[i][1],
                             input_params.h3_resolution) \in Range(_h3_hexagons)
        /\ \A i, j \in 1..Len(_h3_hexagons) :
              _h3_hexagons[i] = _h3_hexagons[j] => i = j
        /\ Len(_h3_hexagons) <= 7 * Len(_coordinates_segmentized)

\* C6 witness: a mapping in which cells of different coordinates coincided and
\* were merged.
C6_Witness ==
    /\ Did("coordinates_to_h3_hexagons")
    /\ Len(_coordinates_segmentized) >= 2
    /\ Len(_h3_hexagons) >= 7
    /\ Len(_h3_hexagons) <
          Len(HexagonsFrom(_coordinates_segmentized, input_params.h3_resolution, 1))

\* C7: segmentize_geojson_data on a feature whose geometry has exactly one
\* coordinate does not fail and returns that one coordinate.
C7_SinglePointPassedThrough ==
    (heap # <<>> /\ Len(seg_line) = 1 /\ pc # "seg_geojson") =>
        (error = "none" /\ heap[1] = seg_line /\ seg_out = seg_line)

\* C8: segmentizing the output of a segmentize call again, with the same
\* max_segment_length, gives the same point sequence.
C8_ResegmentizationIdempotent ==
    pc = "seg_done" => seg_out2 = seg_out

\* C8 witness: a second call on a result that the first call had made denser.
C8_Witness ==
    /\ pc = "seg_done"
    /\ Len(seg_out) > Len(seg_line)
    /\ seg_out2 = seg_out

\* C9 as stated: no output file is ever left partially written.
C9_NoPartialFile ==
    \A f \in FileNames : files[f].status \in {"absent", "complete"}

\* C9 amended: a failing output write ends the run at once with the error,
\* and no later step runs: the files written before it are complete, the
\* files after it are untouched, and only the file being written may be left
\* truncated or holding a prefix of its content.
C9_WriteFailureEndsRun ==
    /\ \A f \in FileNames : files[f].status = "partial" => error = "OSError"
    /\ error = "OSError" =>
          /\ pc = "failed"
          /\ \E k \in 1..Len(WriteOrder) :
                /\ \A j \in 1..(k - 1) : files[WriteOrder[j]].status = "complete"
                /\ files[WriteOrder[k]].status \in {"absent", "partial"}
                /\ files[WriteOrder[k]].status = "partial" =>
                      files[WriteOrder[k]].content \in
                          Truncations(
                            CASE k = 1 -> model_dump_json(_geojson_data, _shapefile_data)
                              [] k = 2 -> model_dump_json(segmentized_geojson_data, heap)
                              [] k = 3 -> CoordinateRows(_coordinates)
                              [] k = 4 -> CoordinateRows(_coordinates_segmentized)
                              [] k = 5 -> HexagonRows(_h3_hexagons))
                /\ \A j \in (k + 1)..Len(WriteOrder) : files[WriteOrder[j]] = Untouched

\* C9 witness: the write of the segmentized collection failed part way.
C9_Witness ==
    /\ error = "OSError"
    /\ files["geojson"].status = "complete"
    /\ files["geojson_segmentized"].status = "partial"
    /\ files["geojson_segmentized"].content.rows # <<>>
    /\ files["coordinates"] = Untouched

ExpectedCount(p, q, m) ==
    LET d2 == SqDist(p, q)
    IN  CHOOSE n \in 0..((d2 \div (m * m)) + 1) :
            /\ n * n * m * m >= d2
            /\ n = 0 \/ (n - 1) * (n - 1) * m * m < d2

\* The points that replace the segment p-q, after p: q alone for a
\* zero-length segment, else the ends of its ceil(L / m) equal parts.
ExpectedSegment(p, q, m) ==
    LET n == ExpectedCount(p, q, m)
    IN  IF n = 0 THEN <<q>>
        ELSE [j \in 1..n |-> <<p[1] + (j * (q[1] - p[1])) \div n,
                               p[2] + (j * (q[2] - p[2])) \div n>>]

RECURSIVE ExpectedFrom(_, _, _)
ExpectedFrom(pts, i, m) ==
    IF i >= Len(pts) THEN <<>>
    ELSE ExpectedSegment(pts[i], pts[i + 1], m) \o ExpectedFrom(pts, i + 1, m)

ExpectedResample(pts, m) ==
    IF Len(pts) = 0 THEN <<>> ELSE <<pts[1]>> \o ExpectedFrom(pts, 1, m)


====
